---- MODULE Spec2Model ----
(***************************************************************************)
(* K-distributed sea-clutter simulation                                    *)
(* (K_distributed_SeaClutter_Simulation_20210919.py).                      *)
(*                                                                         *)
(* Number formats.  binary64 values are modelled in fixed point:           *)
(*   - Gaussian samples (white noise, coloured noise) are integers in      *)
(*     units of 1/XScale standard deviations;                              *)
(*   - probabilities are integers in units of 1/PScale;                    *)
(*   - Gamma (texture) values are "floats": records [k, v] whose kind k    *)
(*     is "fin", "inf" or "nan" and whose v is in units of 1/TScale;       *)
(*   - the alpha_n are floats in units of 1/AScale, the normalised         *)
(*     coefficients and the ACF values in units of 1/CScale.               *)
(* The library functions erfc, gammaincinv, exp and cos are tabulated at   *)
(* the points the model uses.                                              *)
(***************************************************************************)
EXTENDS Integers, Sequences, FiniteSets, TLC

VARIABLES engine, engineB, ret, err, calls, draws, noise, fn

vars == <<engine, engineB, ret, err, calls, draws, noise, fn>>

----------------------------------------------------------------------------
(* Bounds of the model *)

\* largest |x| (in standard deviations) handed to hermite_polynomials
MaxX == 3
\* largest order n handed to hermite_polynomials
MaxOrder == 7
\* number of frame requests followed on one engine
MaxFrames == 2

\* fixed-point scales
XScale == 10
PScale == 1000000000
TScale == 100
AScale == 1000
CScale == 1000

----------------------------------------------------------------------------
(* floats *)

Fin(v) == [k |-> "fin", v |-> v]
Inf == [k |-> "inf", v |-> 1]
NegInf == [k |-> "inf", v |-> -1]
NaN == [k |-> "nan", v |-> 0]

\* IEEE comparison a == b: NaN is unequal to everything, itself included
FloatEq(a, b) == a.k # "nan" /\ b.k # "nan" /\ a = b

\* IEEE comparison a <= b
FloatLe(a, b) ==
    /\ a.k # "nan"
    /\ b.k # "nan"
    /\ \/ b.k = "inf"
       \/ a.k = "fin" /\ b.k = "fin" /\ a.v <= b.v

IsFinite(a) == a.k = "fin"

Sign(i) == IF i > 0 THEN 1 ELSE IF i < 0 THEN -1 ELSE 0

SignedInf(s) == IF s > 0 THEN Inf ELSE IF s < 0 THEN NegInf ELSE NaN

\* a / b rounded to the nearest integer, b > 0
RDiv(a, b) == (2 * a + b) \div (2 * b)

\* IEEE a * b, for a float a in units u and an integer factor w in 1/scale:
\* the product in units u
FScale(a, w, scale) ==
    IF a.k = "nan" THEN NaN
    ELSE IF a.k = "inf" THEN SignedInf(a.v * Sign(w))      \* 0 * inf = nan
    ELSE Fin(RDiv(a.v * w, scale))

\* IEEE a / b of two floats in the same units, the quotient in 1/scale
FDiv(a, b, scale) ==
    IF a.k = "nan" \/ b.k = "nan" THEN NaN
    ELSE IF b.k = "inf" THEN (IF a.k = "inf" THEN NaN ELSE Fin(0))
    ELSE IF b.v = 0 THEN (IF a.k = "fin" THEN SignedInf(Sign(a.v)) ELSE a)
    ELSE IF a.k = "inf" THEN SignedInf(a.v * Sign(b.v))
    ELSE IF b.v > 0 THEN Fin(RDiv(a.v * scale, b.v))
    ELSE Fin(RDiv(- a.v * scale, - b.v))

\* IEEE a - b of two floats in the same units
FSub(a, b) ==
    IF a.k = "nan" \/ b.k = "nan" THEN NaN
    ELSE IF a.k = "inf" THEN (IF b.k = "inf" /\ b.v = a.v THEN NaN ELSE a)
    ELSE IF b.k = "inf" THEN SignedInf(- b.v)
    ELSE Fin(a.v - b.v)

\* IEEE a + b of two floats in the same units
FAdd(a, b) ==
    IF a.k = "nan" \/ b.k = "nan" THEN NaN
    ELSE IF a.k = "inf" THEN (IF b.k = "inf" /\ b.v # a.v THEN NaN ELSE a)
    ELSE IF b.k = "inf" THEN b
    ELSE Fin(a.v + b.v)

\* np.sum of the floats f[p], p in S (0.0 for an empty S)
RECURSIVE FSum(_, _)
FSum(S, f) ==
    IF S = {} THEN Fin(0)
    ELSE LET p == CHOOSE q \in S : TRUE IN FAdd(f[p], FSum(S \ {p}, f))

----------------------------------------------------------------------------
(* fields: 2-D arrays, shape (rows, cols) *)

Cells(r, c) == (1..r) \X (1..c)

Field(r, c, f) == [rows |-> r, cols |-> c, cell |-> f]

Shape(a) == <<a.rows, a.cols>>

MapField(a, Op(_)) ==
    Field(a.rows, a.cols, [p \in Cells(a.rows, a.cols) |-> Op(a.cell[p])])

----------------------------------------------------------------------------
(* hermite_polynomials, lines 93-118 *)

Pow(x, n) == IF n = 0 THEN 1
             ELSE IF n = 1 THEN x
             ELSE IF n = 2 THEN x * x
             ELSE IF n = 3 THEN x * x * x
             ELSE IF n = 4 THEN x * x * x * x
             ELSE x * x * x * x * x

\* lines 103-105: an order above 5 is limited to 5
HermiteClampBoth(n) == IF n > 5 THEN 5 ELSE IF n < 0 THEN 0 ELSE n

HermiteClampNone(n) == n

HermiteClamp(n) == IF n > 5 THEN 5 ELSE n

\* lines 106-118: Hn is assigned only by the branch of the (clamped) order;
\* when no branch runs, "return Hn" raises UnboundLocalError
hermite_polynomials(x, n) ==
    LET m == HermiteClamp(n) IN
    IF m = 5 THEN [raised |-> FALSE, Hn |-> 32 * Pow(x, 5) - 160 * Pow(x, 3) + 120]
    ELSE IF m = 4 THEN [raised |-> FALSE, Hn |-> 16 * Pow(x, 4) - 48 * Pow(x, 2) + 12]
    ELSE IF m = 3 THEN [raised |-> FALSE, Hn |-> 8 * Pow(x, 3) - 12 * x]
    ELSE IF m = 2 THEN [raised |-> FALSE, Hn |-> 4 * Pow(x, 2) - 2]
    ELSE IF m = 1 THEN [raised |-> FALSE, Hn |-> 2 * x]
    ELSE IF m = 0 THEN [raised |-> FALSE, Hn |-> 1]
    ELSE [raised |-> TRUE, Hn |-> 0]

----------------------------------------------------------------------------
(* mnlt, lines 83-91 *)

\* nearest whole standard deviation of a Gaussian sample
Quant(x) == (x + XScale \div 2) \div XScale

\* scipy.special.erfc(x/sqrt(2))/2 at whole standard deviations, in 1/PScale;
\* below the resolution from 7 standard deviations on
QTab == <<158655254, 22750132, 1349898, 31671, 287, 1>>

ErfcHalf(x) ==
    LET q == Quant(x)
        a == IF q < 0 THEN -q ELSE q
        t == IF a = 0 THEN PScale \div 2
             ELSE IF a <= Len(QTab) THEN QTab[a]
             ELSE 0
    IN IF q < 0 THEN PScale - t ELSE t

\* scipy.special.gammaincinv(v, p) for the tabulated shapes, in 1/TScale, at
\* the probabilities 1 - ErfcHalf(x), x = -6 .. 6 standard deviations
PTab == <<1, 287, 31671, 1349898, 22750132, 158655254, 500000000,
          841344746, 977249868, 998650102, 999968329, 999999713, 999999999>>

YTab(v) ==
    IF v = 2
    THEN <<0, 0, 1, 5, 23, 71, 168, 330, 568, 890, 1300, 1801, 2394>>
    ELSE <<4, 13, 35, 79, 158, 284, 467, 716, 1039, 1439, 1923, 2491, 3147>>

\* a shape outside (0, oo) is a domain error (nan); probability 0 maps to 0
\* and probability 1 to infinity; between the tabulated probabilities the
\* quantile is that of the nearest tabulated probability below
GammaIncInv(v, p) ==
    IF v <= 0 \/ p < 0 \/ p > PScale THEN NaN
    ELSE IF p = 0 THEN Fin(0)
    ELSE IF p = PScale THEN Inf
    ELSE LET i == CHOOSE j \in 1..Len(PTab) :
                     /\ PTab[j] <= p
                     /\ \A l \in 1..Len(PTab) : PTab[l] <= p => l <= j
         IN Fin(YTab(v)[i])

\* line 89: nlx = 1 - erfc(x/sqrt(2))/2
NlxFlipped(x) == ErfcHalf(x)

Nlx(x) == PScale - ErfcHalf(x)

\* lines 89-90 for one cell
mnlt1(x, v) == GammaIncInv(v, Nlx(x))

\* lines 83-91 for a field: numpy applies both ufuncs cell by cell
mnlt(x, v) == LET T(c) == mnlt1(c, v) IN MapField(x, T)

----------------------------------------------------------------------------
(* coeff_acf_polyn, lines 121-139 *)

\* np.exp(-x**2) at whole standard deviations, in 1/EScale
EScale == 1000

ExpNegSq(x) ==
    LET q == Quant(x)
        a == IF q < 0 THEN -q ELSE q
    IN IF a = 0 THEN EScale ELSE IF a = 1 THEN 368 ELSE IF a = 2 THEN 18 ELSE 0

Factorial(n) == IF n <= 1 THEN 1 ELSE IF n = 2 THEN 2 ELSE IF n = 3 THEN 6
                ELSE IF n = 4 THEN 24 ELSE 120

Pow2(n) == IF n = 0 THEN 1 ELSE IF n = 1 THEN 2 ELSE IF n = 2 THEN 4
           ELSE IF n = 3 THEN 8 ELSE IF n = 4 THEN 16 ELSE 32

\* line 134, the summand of one cell: exp(-x**2) * Hn * gamma_cdf_inv
CoeffTerm(x, t, n) ==
    FScale(t, ExpNegSq(x) * hermite_polynomials(Quant(x), n).Hn, EScale)

\* lines 132-135: alpha_n = (1/(pi n! 2^n)) * (sum of the summands)^2,
\* with pi as 22/7
Alpha(x, gamma_cdf_inv, n) ==
    LET S == Cells(x.rows, x.cols)
        term == [p \in S |-> CoeffTerm(x.cell[p], gamma_cdf_inv.cell[p], n)]
        sum == FSum(S, term)
    IN IF sum.k = "nan" THEN NaN
       ELSE IF sum.k = "inf" THEN Inf
       ELSE Fin(RDiv(sum.v * sum.v * 7,
                     22 * Factorial(n) * Pow2(n) * ((TScale * TScale) \div AScale)))

\* lines 130-139: the coefficients of degree 2, 1, 0, in this order
coeff_acf_polyn(x, gamma_cdf_inv) ==
    <<Alpha(x, gamma_cdf_inv, 2), Alpha(x, gamma_cdf_inv, 1),
      Alpha(x, gamma_cdf_inv, 0)>>

\* line 542 (also 349, 418, 491): np.array(coeffs_field) / coeffs_field[-1]
NormaliseByFirst(coeffs) ==
    [i \in 1..Len(coeffs) |-> FDiv(coeffs[i], coeffs[1], CScale)]

Normalise(coeffs) ==
    [i \in 1..Len(coeffs) |-> FDiv(coeffs[i], coeffs[Len(coeffs)], CScale)]

----------------------------------------------------------------------------
(* np.roots(coeffs)[0], lines 155 and 162 *)

Abs(i) == IF i < 0 THEN -i ELSE i

\* a / b rounded to the nearest integer, b # 0
IDiv(a, b) == IF b > 0 THEN RDiv(a, b) ELSE RDiv(-a, -b)

RECURSIVE ISqrtIn(_, _, _)
ISqrtIn(n, lo, hi) ==
    IF lo >= hi THEN lo
    ELSE LET mid == (lo + hi + 1) \div 2
         IN IF mid * mid <= n THEN ISqrtIn(n, mid, hi) ELSE ISqrtIn(n, lo, mid - 1)

\* largest integer whose square is at most n, 0 <= n
ISqrt(n) == ISqrtIn(n, 0, 46340)

Complex(re, im) == [re |-> re, im |-> im]

FNeg(a) == IF a.k = "fin" THEN Fin(- a.v) ELSE IF a.k = "inf" THEN SignedInf(- a.v) ELSE NaN

IsZero(a) == a.k = "fin" /\ a.v = 0

Raise(e) == [raised |-> e, val |-> Complex(0, 0)]

Return(z) == [raised |-> "none", val |-> z]

\* the first root of c2 g^2 + c1 g + c0 with c2 # 0 and finite coefficients:
\* the eigenvalue that LAPACK's standardisation of the 2x2 companion matrix
\* lists first, which is the real root of larger magnitude (the positive one
\* when c1 = 0), or the complex root with positive imaginary part
QuadRoot0(c2, c1, c0) ==
    LET D == c1 * c1 - 4 * c2 * c0
        sp == IF (- c1) * Sign(c2) < 0 THEN -1 ELSE 1
    IN IF D >= 0
       THEN Complex(IDiv((- c1 * Sign(c2) + sp * ISqrt(D)) * CScale, 2 * Abs(c2)), 0)
       ELSE Complex(IDiv(- c1 * CScale, 2 * c2), IDiv(ISqrt(- D) * CScale, 2 * Abs(c2)))

\* numpy.roots(p)[0] for p of length 3: zero coefficients are stripped at
\* both ends (each stripped trailing zero adds a root 0 at the end), an
\* empty list of roots makes [0] raise IndexError, and numpy.linalg.eigvals
\* raises LinAlgError for a companion matrix with a nan or inf entry
Roots0(p) ==
    LET nz == {i \in 1..3 : ~ IsZero(p[i])}
    IN IF nz = {} THEN Raise("IndexError")
       ELSE LET f == CHOOSE i \in nz : \A j \in nz : i <= j
                l == CHOOSE i \in nz : \A j \in nz : j <= i
                A1 == FDiv(FNeg(p[f + 1]), p[f], CScale)
                A2 == FDiv(FNeg(p[f + 2]), p[f], CScale)
            IN IF l = f
               THEN (IF l < 3 THEN Return(Complex(0, 0)) ELSE Raise("IndexError"))
               ELSE IF l = f + 1
               THEN (IF IsFinite(A1) THEN Return(Complex(A1.v, 0))
                     ELSE Raise("LinAlgError"))
               ELSE IF ~ (IsFinite(A1) /\ IsFinite(A2)) THEN Raise("LinAlgError")
               ELSE IF p[1].k = "inf" THEN Return(Complex(0, 0))
               ELSE Return(QuadRoot0(p[1].v, p[2].v, p[3].v))

----------------------------------------------------------------------------
(* solve_acf_polyn, lines 141-164 *)

\* the index tuples of an array of the given shape (one, the empty tuple,
\* for a 0-dimensional array)
RECURSIVE Indices(_)
Indices(shape) ==
    IF shape = <<>> THEN {<<>>}
    ELSE {<<i>> \o s : i \in 1..shape[1], s \in Indices(Tail(shape))}

\* an array of any number of dimensions
NdArray(shape, f) == [shape |-> shape, cell |-> f]

AsArray(a) == NdArray(<<a.rows, a.cols>>, a.cell)

AsField(a) == Field(a.shape[1], a.shape[2], a.cell)

\* line 149: np.zeros(gamma_acf.shape, dtype=complex)
ZerosComplex(shape) == [p \in Indices(shape) |-> Complex(0, 0)]

\* a loop that visits one cell of an array of any shape
SolveVisitsAny(shape) ==
    IF Indices(shape) = {} THEN <<>> ELSE <<CHOOSE p \in Indices(shape) : TRUE>>

\* lines 151-153 and 157-160: the cells in the order the loops visit them;
\* only len(gamma_acf.shape) == 1 and == 2 have a loop
SolveVisits(shape) ==
    IF Len(shape) = 1 THEN [r \in 1..shape[1] |-> <<r>>]
    ELSE IF Len(shape) = 2
    THEN [k \in 1..(shape[1] * shape[2]) |->
             <<((k - 1) \div shape[2]) + 1, ((k - 1) % shape[2]) + 1>>]
    ELSE <<>>

\* a store that takes the degree-0 coefficient from the working copy
SolveAssignStale(coeffs, polyn, t) ==
    [coeffs EXCEPT ![Len(coeffs)] = FSub(coeffs[Len(coeffs)], t)]

\* lines 154 and 161: coeffs[-1] = coeff_acf_polyn[-1] - gamma_acf[...];
\* coeffs is the copy of line 148 and polyn the caller's coeff_acf_polyn,
\* which the store leaves alone
SolveAssign(coeffs, polyn, t) ==
    [coeffs EXCEPT ![Len(coeffs)] = FSub(polyn[Len(polyn)], t)]

\* lines 155 and 162: gaussian_acf[...] = g for the first root g of the
\* working copy c, unless np.roots(c)[0] has raised; st holds the working
\* copy coeffs, the caller's coeff_acf_polyn, the output gaussian_acf and
\* the exception raised so far
SolveStore(st, p, c, g) ==
    [coeffs |-> c,
     coeff_acf_polyn |-> st.coeff_acf_polyn,
     gaussian_acf |-> IF g.raised = "none"
                      THEN [st.gaussian_acf EXCEPT ![p] = g.val]
                      ELSE st.gaussian_acf,
     raised |-> g.raised]

\* lines 154-155 and 161-162 for the cell p with the value t
SolveCell(st, p, t) ==
    SolveStore(st, p, SolveAssign(st.coeffs, st.coeff_acf_polyn, t),
               Roots0(SolveAssign(st.coeffs, st.coeff_acf_polyn, t)))

\* the loops of lines 153-155 and 159-162 from the k-th visit on
RECURSIVE SolveLoop(_, _, _, _)
SolveLoop(st, gamma_acf, visits, k) ==
    IF k > Len(visits) \/ st.raised # "none" THEN st
    ELSE SolveLoop(SolveCell(st, visits[k], gamma_acf.cell[visits[k]]),
                   gamma_acf, visits, k + 1)

\* lines 148-149: the copy of the coefficients and the output of zeros
SolveStart(shape, polyn) ==
    [coeffs |-> polyn, coeff_acf_polyn |-> polyn,
     gaussian_acf |-> ZerosComplex(shape), raised |-> "none"]

\* line 164, with the caller's coefficient vector as the call leaves it
SolveReturn(shape, st) ==
    [raised |-> st.raised,
     val |-> NdArray(shape, st.gaussian_acf),
     coeff_acf_polyn |-> st.coeff_acf_polyn]

\* lines 148-164: the exception of the first cell (in loop order) whose
\* solution raises, otherwise the array of the first roots
solve_acf_polyn(gamma_acf, polyn) ==
    SolveReturn(gamma_acf.shape,
                SolveLoop(SolveStart(gamma_acf.shape, polyn), gamma_acf,
                          SolveVisits(gamma_acf.shape), 1))

----------------------------------------------------------------------------
(* the texture ACF of KField.__init__, lines 533-539 *)

\* np.linspace(start, stop, num, endpoint=True): ValueError for num < 0
linspace(start, stop, num) ==
    IF num < 0 THEN [raised |-> "ValueError", val |-> <<>>]
    ELSE [raised |-> "none",
          val |-> [k \in 1..num |->
                     IF num = 1 THEN start
                     ELSE start + ((k - 1) * (stop - start)) \div (num - 1)]]

\* np.exp(-s/10) for s = -2 .. 20, in 1/EScale
ExpTenth(s) ==
    <<1221, 1105, 1000, 905, 819, 741, 670, 607, 549, 497, 449, 407, 368,
      333, 301, 273, 247, 223, 202, 183, 165, 150, 135>>[s + 3]

\* np.cos(np.pi*y/8) for whole y, in 1/EScale
CosEighth(y) ==
    <<1000, 924, 707, 383, 0, -383, -707, -924, -1000, -924, -707, -383, 0,
      383, 707, 924>>[(y % 16) + 1]

\* line 539 for one cell: 1 + exp(-(x+y)/10) * cos(pi*y/8) / gamma_shape
TextureAcf(x, y, v) ==
    FAdd(Fin(CScale),
         FDiv(Fin(RDiv(ExpTenth(x + y) * CosEighth(y), EScale)), Fin(v * EScale),
              CScale))

\* lines 533-535 and 539: np.meshgrid(xs, ys) has one row per entry of ys
\* and one column per entry of xs
MeshAcf(xs, ys, v) ==
    Field(Len(ys), Len(xs),
          [p \in Cells(Len(ys), Len(xs)) |-> TextureAcf(xs[p[2]], ys[p[1]], v)])

----------------------------------------------------------------------------
(* inputs *)

\* grid dimensions a caller passes as img_w and img_h
Dims == {-1, 0, 1, 2}

\* Gamma shape parameters a caller passes as gamma_shape
GammaShapes == {-1, 2, 5}

\* samples np.random.normal delivers, in 1/XScale standard deviations
NoiseVals == {0, 10, 300}

\* the fields np.random.normal(loc=0, scale=1, size=(r, c)) can deliver
WhiteNoise(r, c) == {Field(r, c, f) : f \in [Cells(r, c) -> NoiseVals]}

----------------------------------------------------------------------------
(* KField.__init__, lines 528-543 *)

EmptyField == Field(0, 0, <<>>)

NoEngine ==
    [built |-> FALSE, img_w |-> 0, img_h |-> 0, gamma_shape |-> 0,
     gamma_field_acf |-> EmptyField, gaussian_field_acf |-> EmptyField]

\* line 543: the 2-D field assigned to self.gaussian_field_acf when
\* solve_acf_polyn returns
Solved(r) ==
    [raised |-> r.raised,
     val |-> IF r.raised = "none" THEN AsField(r.val) ELSE Field(0, 0, <<>>)]

\* lines 538-543: the cached Gaussian ACF, from the white noise Gwn_field
\* drawn at line 538
InitAcf(gamma_field_acf, gamma_shape, Gwn_field) ==
    LET gamma_cdf_inv_field == mnlt(Gwn_field, gamma_shape)
        coeffs_field == Normalise(coeff_acf_polyn(Gwn_field, gamma_cdf_inv_field))
    IN Solved(solve_acf_polyn(AsArray(gamma_field_acf), coeffs_field))

\* line 538: the size of the white noise of the constructor
InitNoiseShape(img_w, img_h) == <<img_h, img_w>>

\* lines 533-534: the number of grid points of xs and of ys
MeshNums(img_w, img_h) == <<img_w, img_w>>

\* the exception KField(img_w, img_h, gamma_shape) ends in before it draws
\* its white noise: np.linspace (lines 533-534) and np.random.normal
\* (line 538) raise ValueError for a negative count
InitEarlyError(img_w, img_h) ==
    IF linspace(10, img_h, MeshNums(img_w, img_h)[1]).raised # "none"
       \/ linspace(10, img_h, MeshNums(img_w, img_h)[2]).raised # "none"
    THEN "ValueError"
    ELSE IF InitNoiseShape(img_w, img_h)[1] < 0 \/ InitNoiseShape(img_w, img_h)[2] < 0
    THEN "ValueError"
    ELSE "none"

\* lines 529-543: the outcome of KField(img_w, img_h, gamma_shape) when
\* np.random.normal delivers Gwn_field
KFieldInit(img_w, img_h, gamma_shape, Gwn_field) ==
    LET xs == linspace(10, img_h, MeshNums(img_w, img_h)[1]).val
        ys == linspace(10, img_h, MeshNums(img_w, img_h)[2]).val
        gamma_field_acf == MeshAcf(xs, ys, gamma_shape)
        solved == InitAcf(gamma_field_acf, gamma_shape, Gwn_field)
    IN IF solved.raised # "none"
       THEN [raised |-> solved.raised, self |-> NoEngine]
       ELSE [raised |-> "none",
             self |-> [built |-> TRUE, img_w |-> img_w, img_h |-> img_h,
                       gamma_shape |-> gamma_shape,
                       gamma_field_acf |-> gamma_field_acf,
                       gaussian_field_acf |-> solved.val]]

----------------------------------------------------------------------------
(* the coloured Gaussian samples of a frame, lines 558-561 (438-441) *)

\* the factor exp(-2 pi i (k-1)(n-1)/N) of the discrete Fourier transform
\* of length N, for the lengths 1 and 2 of the model
Twiddle(k, n) == IF ((k - 1) * (n - 1)) % 2 = 0 THEN 1 ELSE -1

Twiddle2(k, n) == Twiddle(k[1], n[1]) * Twiddle(k[2], n[2])

RECURSIVE ISum(_, _)
ISum(S, f) ==
    IF S = {} THEN 0
    ELSE LET p == CHOOSE q \in S : TRUE IN f[p] + ISum(S \ {p}, f)

\* |a + bi| for whole a, b
RECURSIVE Hypot(_, _)
Hypot(a, b) ==
    IF Abs(a) <= 30000 /\ Abs(b) <= 30000 THEN ISqrt(a * a + b * b)
    ELSE 10 * Hypot(Abs(a) \div 10, Abs(b) \div 10)

\* the square root of u >= 0, both in 1/CScale
RECURSIVE SqrtFixed(_)
SqrtFixed(u) ==
    IF u <= 2000000 THEN ISqrt(u * CScale) ELSE 10 * SqrtFixed(u \div 100)

\* the real part of np.sqrt(z) (principal branch), in 1/CScale
SqrtRe(z) == SqrtFixed((Hypot(z.re, z.im) + z.re) \div 2)

\* np.fft.fft2 raises ValueError for an axis of length 0
FftError(a) == IF a.rows < 1 \/ a.cols < 1 THEN "ValueError" ELSE "none"

\* line 561: np.real(ifft2(fft2(Gwn_field) * np.sqrt(fft2(gaussian_field_acf))));
\* fft2(Gwn_field) is real for the lengths 1 and 2, so that only the real
\* part of the square root contributes
Colour(Gwn_field, gaussian_field_acf) ==
    LET S == Cells(Gwn_field.rows, Gwn_field.cols)
        F_Gw == [k \in S |-> ISum(S, [n \in S |-> Twiddle2(k, n) * Gwn_field.cell[n]])]
        F_Grc == [k \in S |->
                    Complex(ISum(S, [n \in S |-> Twiddle2(k, n) * gaussian_field_acf.cell[n].re]),
                            ISum(S, [n \in S |-> Twiddle2(k, n) * gaussian_field_acf.cell[n].im]))]
        prod == [k \in S |-> F_Gw[k] * SqrtRe(F_Grc[k])]
    IN Field(Gwn_field.rows, Gwn_field.cols,
             [n \in S |-> IDiv(ISum(S, [k \in S |-> Twiddle2(k, n) * prod[k]]),
                               Cardinality(S) * CScale)])

----------------------------------------------------------------------------
(* generate_correlated_Gaussian_via_expdecay, lines 270-296 *)

\* line 275: the size of the grid of the speckle
M == 300

\* lines 285-296: the speckle is a complex M x M field whatever the grid of
\* the caller; it is identified by the draw of its white noise (line 285)
generate_correlated_Gaussian_via_expdecay(draw) ==
    [rows |-> M, cols |-> M, noise |-> draw]

----------------------------------------------------------------------------
(* generate_K_distributed_noise_fast, lines 544-573 and 423-465 *)

\* the shape numpy broadcasts two 2-D shapes to, <<>> when they do not match
Broadcast(s, t) ==
    IF (s[1] = t[1] \/ s[1] = 1 \/ t[1] = 1) /\ (s[2] = t[2] \/ s[2] = 1 \/ t[2] = 1)
    THEN <<IF s[1] = 1 THEN t[1] ELSE s[1], IF s[2] = 1 THEN t[2] ELSE s[2]>>
    ELSE <<>>

NoRet == [some |-> FALSE,
          Ckn_field_am |-> [rows |-> 0, cols |-> 0, speckle |-> 0, texture |-> EmptyField],
          Gan_field |-> EmptyField]

\* lines 564-565 (444-445): np.sum(Gan_field == value) == 0
AssertNone(Gan_field, value) ==
    \A p \in Cells(Gan_field.rows, Gan_field.cols) : ~ FloatEq(Gan_field.cell[p], value)

\* lines 554-555 (433-434): the size of the white noise of a frame
FrameNoiseShape(gamma_field_acf) == <<gamma_field_acf.rows, gamma_field_acf.cols>>

\* lines 552-573 (431-465): the outcome of one frame request for the texture
\* ACF, the Gaussian ACF and the shape parameter v, when np.random.normal
\* delivers Gwn_field (line 555) and then the white noise number
\* speckle_draw (line 285); draws counts the calls of np.random.normal and
\* attempts the texture realisations generated (line 562) by the request
FrameBody(gamma_field_acf, gaussian_field_acf, v, Gwn_field, speckle_draw) ==
    IF FftError(Gwn_field) # "none" \/ FftError(gaussian_field_acf) # "none"
    THEN [raised |-> "ValueError", draws |-> 1, attempts |-> 1, ret |-> NoRet]
    ELSE IF Shape(Gwn_field) # Shape(gaussian_field_acf)
    THEN [raised |-> "ValueError", draws |-> 1, attempts |-> 1, ret |-> NoRet]
    ELSE
    LET Gcn_field == Colour(Gwn_field, gaussian_field_acf)
        Gan_field == mnlt(Gcn_field, v)
        Gpn_field == generate_correlated_Gaussian_via_expdecay(speckle_draw)
        shape == Broadcast(<<Gpn_field.rows, Gpn_field.cols>>, Shape(Gan_field))
    IN IF ~ AssertNone(Gan_field, Inf)
       THEN [raised |-> "AssertionError", draws |-> 1, attempts |-> 1, ret |-> NoRet]
       ELSE IF ~ AssertNone(Gan_field, NaN)
       THEN [raised |-> "AssertionError", draws |-> 1, attempts |-> 1, ret |-> NoRet]
       ELSE IF shape = <<>>
       THEN [raised |-> "ValueError", draws |-> 2, attempts |-> 1, ret |-> NoRet]
       ELSE [raised |-> "none", draws |-> 2, attempts |-> 1,
             ret |-> [some |-> TRUE,
                      Ckn_field_am |-> [rows |-> shape[1], cols |-> shape[2],
                                        speckle |-> Gpn_field.noise,
                                        texture |-> Gan_field],
                      Gan_field |-> Gan_field]]

----------------------------------------------------------------------------
(* the program: one engine, its frames *)

\* lines 552-573: the engine after a frame request; no statement of the
\* method assigns an attribute of self or calls coeff_acf_polyn or
\* solve_acf_polyn
FrameCacheRecomputed(self, Gwn_field) ==
    [self EXCEPT !.gaussian_field_acf =
        InitAcf(self.gamma_field_acf, self.gamma_shape, Gwn_field).val]

FrameCache(self, Gwn_field) == self

NoFn == [op |-> "none"]

\* the calls of np.random.normal, numbered in the order they are made: init
\* is the call of the constructor (line 538), texture and speckle are the
\* calls of the last frame request (0: no such call), earlier are the calls
\* made before that request
NoNoise == [init |-> 0, texture |-> 0, speckle |-> 0, earlier |-> {}]

\* line 538: Gwn_field is a new call of np.random.normal, held in a local
InitDraw(n) == n + 1

\* a texture noise taken from the constructor's call
TextureDrawCached(n) == 1

\* line 555 (434): Gwn_field is a new call of np.random.normal
TextureDraw(n) == n + 1

\* line 285, reached from line 566 (446): Gwn is a new call of
\* np.random.normal, the next after that of line 555
SpeckleDraw(n) == n + 2

\* the calls of np.random.normal of a frame request with outcome r, made
\* after n earlier calls
FrameNoise(n, r) ==
    [init |-> noise.init, texture |-> TextureDraw(n),
     speckle |-> IF r.draws = 2 THEN SpeckleDraw(n) ELSE 0,
     earlier |-> 1..n]

Init ==
    /\ engine = NoEngine
    /\ engineB = NoEngine
    /\ ret = NoRet
    /\ err = "none"
    /\ calls = [estimator |-> 0, solver |-> 0, frames |-> 0, attempts |-> 0]
    /\ draws = 0
    /\ noise = NoNoise
    /\ fn = NoFn

\* kfield_clutter = KField(img_w, img_h, gamma_shape), line 588
Build ==
    /\ ~ engine.built
    /\ err = "none"
    /\ \E img_w \in Dims, img_h \in Dims, gamma_shape \in GammaShapes :
          IF InitEarlyError(img_w, img_h) # "none"
          THEN /\ err' = InitEarlyError(img_w, img_h)
               /\ UNCHANGED <<engine, calls, draws, noise>>
          ELSE \E Gwn_field \in WhiteNoise(InitNoiseShape(img_w, img_h)[1],
                                            InitNoiseShape(img_w, img_h)[2]) :
                 LET r == KFieldInit(img_w, img_h, gamma_shape, Gwn_field)
                 IN /\ engine' = r.self
                    /\ err' = r.raised
                    /\ calls' = [calls EXCEPT !.estimator = @ + 1, !.solver = @ + 1]
                    /\ draws' = InitDraw(draws)
                    /\ noise' = [noise EXCEPT !.init = InitDraw(draws)]
    /\ UNCHANGED <<engineB, ret, fn>>

\* kfield_clutter.generate_K_distributed_noise_fast(), line 592
NextFrame ==
    /\ engine.built
    /\ calls.frames < MaxFrames
    /\ \E Gwn_field \in WhiteNoise(FrameNoiseShape(engine.gamma_field_acf)[1],
                                     FrameNoiseShape(engine.gamma_field_acf)[2]) :
          LET r == FrameBody(engine.gamma_field_acf, engine.gaussian_field_acf,
                             engine.gamma_shape, Gwn_field, SpeckleDraw(draws))
          IN /\ ret' = r.ret
             /\ err' = r.raised
             /\ draws' = draws + r.draws
             /\ noise' = FrameNoise(draws, r)
             /\ calls' = [calls EXCEPT !.frames = @ + 1, !.attempts = r.attempts]
             /\ engine' = FrameCache(engine, Gwn_field)
    /\ UNCHANGED <<engineB, fn>>

\* generate_K_distributed_noise_fast(gamma_field_acf, gaussian_field_acf,
\* gamma_shape), lines 423-465, called with the two fields of the engine
FrameFast ==
    /\ engine.built
    /\ calls.frames < MaxFrames
    /\ \E gamma_shape \in GammaShapes,
          Gwn_field \in WhiteNoise(FrameNoiseShape(engine.gamma_field_acf)[1],
                                   FrameNoiseShape(engine.gamma_field_acf)[2]) :
          LET r == FrameBody(engine.gamma_field_acf, engine.gaussian_field_acf,
                             gamma_shape, Gwn_field, SpeckleDraw(draws))
          IN /\ ret' = r.ret
             /\ err' = r.raised
             /\ draws' = draws + r.draws
             /\ noise' = FrameNoise(draws, r)
             /\ calls' = [calls EXCEPT !.frames = @ + 1, !.attempts = r.attempts]
    /\ UNCHANGED <<engine, engineB, fn>>

Next == Build \/ NextFrame \/ FrameFast

Spec == Init /\ [][Next]_vars

----------------------------------------------------------------------------
(* two constructions *)

\* a second KField(img_w, img_h, gamma_shape) after the first
BuildAgain ==
    /\ engine.built
    /\ ~ engineB.built
    /\ err = "none"
    /\ \E img_w \in Dims, img_h \in Dims, gamma_shape \in GammaShapes :
          IF InitEarlyError(img_w, img_h) # "none"
          THEN /\ err' = InitEarlyError(img_w, img_h)
               /\ UNCHANGED <<engineB, calls, draws>>
          ELSE \E Gwn_field \in WhiteNoise(InitNoiseShape(img_w, img_h)[1],
                                            InitNoiseShape(img_w, img_h)[2]) :
                 LET r == KFieldInit(img_w, img_h, gamma_shape, Gwn_field)
                 IN /\ engineB' = r.self
                    /\ err' = r.raised
                    /\ calls' = [calls EXCEPT !.estimator = @ + 1, !.solver = @ + 1]
                    /\ draws' = InitDraw(draws)
    /\ UNCHANGED <<engine, ret, noise, fn>>

PairNext == Build \/ BuildAgain

PairSpec == Init /\ [][PairNext]_vars

----------------------------------------------------------------------------
(* the functions on their own: one call of one function *)

\* Gaussian samples handed to mnlt, in 1/XScale standard deviations
MnltVals == {-300, -70, -30, -10, -4, 0, 4, 10, 30, 70, 300}

MnltShapes == {<<1, 1>>, <<1, 2>>, <<2, 1>>}

CoeffShapes == {<<1, 1>>, <<1, 2>>, <<2, 1>>, <<2, 2>>}

CallHermite ==
    /\ fn.op = "none"
    /\ \E x \in (- MaxX)..MaxX, n \in (- MaxOrder)..MaxOrder :
          fn' = [op |-> "hermite", x |-> x, n |-> n, out |-> hermite_polynomials(x, n)]
    /\ UNCHANGED <<engine, engineB, ret, err, calls, draws, noise>>

CallMnlt ==
    /\ fn.op = "none"
    /\ \E sh \in MnltShapes, v \in GammaShapes :
          \E f \in [Cells(sh[1], sh[2]) -> MnltVals] :
             LET x == Field(sh[1], sh[2], f)
             IN fn' = [op |-> "mnlt", x |-> x, v |-> v, out |-> mnlt(x, v)]
    /\ UNCHANGED <<engine, engineB, ret, err, calls, draws, noise>>

\* lines 540-542 on a white noise field
CallCoeff ==
    /\ fn.op = "none"
    /\ \E sh \in CoeffShapes, v \in GammaShapes :
          \E x \in WhiteNoise(sh[1], sh[2]) :
             LET coeffs == coeff_acf_polyn(x, mnlt(x, v))
             IN fn' = [op |-> "coeff", x |-> x, v |-> v, coeffs |-> coeffs,
                       normalised |-> Normalise(coeffs)]
    /\ UNCHANGED <<engine, engineB, ret, err, calls, draws, noise>>

\* shapes of the texture ACF handed to solve_acf_polyn: 0 to 3 dimensions
SolveShapes == {<<>>, <<2>>, <<3>>, <<1, 2>>, <<2, 2>>, <<1, 1, 2>>}

\* texture ACF values, in 1/CScale
SolveVals == {0, 1000, 1500, 3000}

\* coefficient vectors (a2, a1, a0) in 1/CScale: two quadratics with real
\* and complex roots, the reference coefficients of lines 351 and 495, a
\* linear and a constant polynomial
SolveCoeffs == {<<1000, -3000, 3000>>, <<1000, 2000, 3000>>, <<177, 816, 1000>>,
                <<0, 2000, 1000>>, <<0, 0, 1000>>}

\* solve_acf_polyn(gamma_acf, coeff_acf_polyn), lines 141-164
CallSolve ==
    /\ fn.op = "none"
    /\ \E shape \in SolveShapes, c \in SolveCoeffs :
          \E f \in [Indices(shape) -> SolveVals] :
             LET gamma_acf == NdArray(shape, [p \in Indices(shape) |-> Fin(f[p])])
                 coeffs == <<Fin(c[1]), Fin(c[2]), Fin(c[3])>>
                 r == solve_acf_polyn(gamma_acf, coeffs)
             IN fn' = [op |-> "solve", gamma_acf |-> gamma_acf, coeffs |-> coeffs,
                       raised |-> r.raised, out |-> r.val,
                       after |-> r.coeff_acf_polyn]
    /\ UNCHANGED <<engine, engineB, ret, err, calls, draws, noise>>

FnNext == CallHermite \/ CallMnlt \/ CallCoeff \/ CallSolve

FnSpec == Init /\ [][FnNext]_vars

----------------------------------------------------------------------------
(* properties *)

AllCells(a, P(_)) == \A p \in Cells(a.rows, a.cols) : P(a.cell[p])

\* C1: every frame an engine returns has an amplitude field and a texture
\* field of shape (img_h, img_w), the grid the engine was built with.
C1_FrameShapeIsGrid ==
    ret.some =>
        /\ Shape(ret.Ckn_field_am) = <<engine.img_h, engine.img_w>>
        /\ Shape(ret.Gan_field) = <<engine.img_h, engine.img_w>>

\* C2: once the engine is built, no step changes the cached Gaussian ACF,
\* the cached texture ACF or the shape parameter, and none calls the
\* coefficient estimator or solve_acf_polyn: both ran once, at construction.
C2_CacheComputedOnce ==
    /\ [](engine.built => calls.estimator = 1 /\ calls.solver = 1)
    /\ [][engine.built =>
             /\ engine'.gaussian_field_acf = engine.gaussian_field_acf
             /\ engine'.gamma_field_acf = engine.gamma_field_acf
             /\ engine'.gamma_shape = engine.gamma_shape
             /\ calls'.estimator = calls.estimator
             /\ calls'.solver = calls.solver]_vars

\* two frame requests have been served by a built engine with cells, the
\* last one returning a frame
C2_Witness ==
    /\ engine.built
    /\ engine.gaussian_field_acf.rows > 0
    /\ calls.frames = 2
    /\ ret.some

\* C3: two engines built with the same img_w, img_h and gamma_shape have
\* the same cached Gaussian ACF, whatever white noise each construction drew.
C3_AcfIndependentOfNoise ==
    (/\ engine.built
     /\ engineB.built
     /\ engine.img_w = engineB.img_w
     /\ engine.img_h = engineB.img_h
     /\ engine.gamma_shape = engineB.gamma_shape)
    => engine.gaussian_field_acf = engineB.gaussian_field_acf

\* C4: a frame whose texture field has a nan or an infinite cell is not
\* returned: every returned texture field is finite in every cell.
C4_NonFiniteNotReturned ==
    ret.some => AllCells(ret.Gan_field, IsFinite)

\* C5: a frame request ends in the error for a non-finite texture only
\* after the texture has been regenerated with fresh white noise at least
\* once.
C5_RetryBeforeFatal ==
    err = "AssertionError" => calls.attempts > 1

\* C6: an engine exists only for positive img_w, img_h and gamma_shape.
C6_InvalidConfigRefused ==
    engine.built => engine.img_w > 0 /\ engine.img_h > 0 /\ engine.gamma_shape > 0

\* the value of the polynomial with the coefficients c (degree 2, 1, 0) at
\* Gaussian ACF 1, in 1/CScale
PolyAtOne(c) == c[1].v + c[2].v + c[3].v

\* C7 as claimed: finite normalised coefficients sum to 1, up to the
\* rounding of the three coefficients.
C7_SumIsOne ==
    (fn.op = "coeff" /\ \A i \in 1..3 : IsFinite(fn.normalised[i]))
    => Abs(PolyAtOne(fn.normalised) - CScale) <= 3

\* C7 as amended: when the degree-0 coefficient alpha_0 is finite and not
\* zero, the normalised degree-0 coefficient is exactly 1 (the polynomial
\* is 1 at Gaussian ACF 0), the other two are finite and not negative, and
\* the polynomial at Gaussian ACF 1 is 1 + alpha_2 + alpha_1 >= 1.
C7_DegreeZeroIsOne ==
    (fn.op = "coeff" /\ IsFinite(fn.coeffs[3]) /\ fn.coeffs[3].v # 0)
    => /\ fn.normalised[3] = Fin(CScale)
       /\ \A i \in 1..2 : IsFinite(fn.normalised[i]) /\ fn.normalised[i].v >= 0
       /\ PolyAtOne(fn.normalised) >= CScale

\* coefficients with a finite non-zero alpha_0 whose normalised sum exceeds 1
C7_Witness ==
    /\ fn.op = "coeff"
    /\ IsFinite(fn.coeffs[3])
    /\ fn.coeffs[3].v # 0
    /\ fn.coeffs[3].v # AScale
    /\ fn.normalised[3] = Fin(CScale)
    /\ PolyAtOne(fn.normalised) > CScale + 3

\* C8: for a shape parameter v > 0, mnlt returns a field of the shape of
\* its input in which a cell with a smaller input never has a larger
\* output, and cells with equal inputs have equal outputs.
C8_MnltOrderPreserving ==
    (fn.op = "mnlt" /\ fn.v > 0)
    => /\ Shape(fn.out) = Shape(fn.x)
       /\ \A p, q \in Cells(fn.x.rows, fn.x.cols) :
             /\ fn.x.cell[p] < fn.x.cell[q] => FloatLe(fn.out.cell[p], fn.out.cell[q])
             /\ fn.x.cell[p] = fn.x.cell[q] => fn.out.cell[p] = fn.out.cell[q]

\* mnlt has mapped two cells with different inputs to different finite
\* outputs
C8_Witness ==
    /\ fn.op = "mnlt"
    /\ fn.v > 0
    /\ \E p, q \in Cells(fn.x.rows, fn.x.cols) :
          /\ fn.x.cell[p] < fn.x.cell[q]
          /\ IsFinite(fn.out.cell[p])
          /\ IsFinite(fn.out.cell[q])
          /\ fn.out.cell[p].v < fn.out.cell[q].v

\* C9: for an order n > 5, hermite_polynomials returns the value it
\* returns for the order 5.
C9_OrderAboveFiveIsFive ==
    (fn.op = "hermite" /\ fn.n > 5)
    => /\ ~ fn.out.raised
       /\ fn.out = hermite_polynomials(fn.x, 5)

\* hermite_polynomials has returned a value for an order above 5
C9_Witness ==
    /\ fn.op = "hermite"
    /\ fn.n > 5
    /\ fn.x # 0
    /\ ~ fn.out.raised

\* the physicists' Hermite polynomial by its recurrence:
\* H_0 = 1, H_1 = 2x, H_(k+1) = 2x H_k - 2k H_(k-1)
RECURSIVE HermiteRec(_, _)
HermiteRec(x, n) ==
    IF n = 0 THEN 1
    ELSE IF n = 1 THEN 2 * x
    ELSE 2 * x * HermiteRec(x, n - 1) - 2 * (n - 1) * HermiteRec(x, n - 2)

\* C10: for an order n in 0..5, hermite_polynomials returns H_n(x).
C10_HermiteIsPhysicists ==
    (fn.op = "hermite" /\ fn.n \in 0..5)
    => /\ ~ fn.out.raised
       /\ fn.out.Hn = HermiteRec(fn.x, fn.n)

\* C14: for an order below 0, hermite_polynomials ends in an error (no
\* branch has assigned the result) and returns no value; for an order of 0
\* or more it returns a value.
C14_NegativeOrderRaises ==
    fn.op = "hermite" => (fn.out.raised <=> fn.n < 0)

\* hermite_polynomials has been called with an order below 0 and has raised
C14_Witness ==
    /\ fn.op = "hermite"
    /\ fn.n < 0
    /\ fn.x # 0
    /\ fn.out.raised

\* c2 g^2 + c1 g + c0 at the complex g; everything in 1/CScale
PolyAt(c2, c1, c0, g) ==
    LET sq == Complex(RDiv(g.re * g.re - g.im * g.im, CScale),
                      RDiv(2 * g.re * g.im, CScale))
    IN Complex(RDiv(c2 * sq.re + c1 * g.re, CScale) + c0,
               RDiv(c2 * sq.im + c1 * g.im, CScale))

\* what the rounding of a root to 1/CScale leaves of the polynomial: the
\* derivative at a root is sqrt(c1^2 - 4 c2 c0) in magnitude, and the root
\* is off by at most E/CScale in each part
RootSlack(c2, c1, c0) ==
    LET D == c1 * c1 - 4 * c2 * c0
        E == IF c2 = 0 THEN 1 ELSE 2 + (CScale \div Abs(c2))
    IN 4 + (((ISqrt(Abs(D)) + 1) * 2 * E) \div CScale)
         + ((Abs(c2) * 4 * E * E) \div (CScale * CScale))

IsRoot(c2, c1, c0, g) ==
    /\ Abs(PolyAt(c2, c1, c0, g).re) <= RootSlack(c2, c1, c0)
    /\ Abs(PolyAt(c2, c1, c0, g).im) <= RootSlack(c2, c1, c0)

\* the array of one dimension and one cell that holds t
OneCell(t) == NdArray(<<1>>, [p \in Indices(<<1>>) |-> t])

\* C11: for a texture ACF of 1 or 2 dimensions and coefficients
\* (a2, a1, a0), a call of solve_acf_polyn that returns gives an array of
\* the shape of its input in which every cell g is a root of
\* a2 g^2 + a1 g + (a0 - t), t the input cell and a0 the caller's degree-0
\* coefficient; the cell is what a call on that cell alone returns; and
\* the caller's coefficient vector is the same after the call.
C11_SolvesEachCell ==
    fn.op = "solve"
    => /\ fn.after = fn.coeffs
       /\ (Len(fn.gamma_acf.shape) \in {1, 2} /\ fn.raised = "none")
          => /\ fn.out.shape = fn.gamma_acf.shape
             /\ DOMAIN fn.out.cell = Indices(fn.gamma_acf.shape)
             /\ \A p \in Indices(fn.gamma_acf.shape) :
                   /\ IsRoot(fn.coeffs[1].v, fn.coeffs[2].v,
                             fn.coeffs[3].v - fn.gamma_acf.cell[p].v,
                             fn.out.cell[p])
                   /\ fn.out.cell[p]
                        = solve_acf_polyn(OneCell(fn.gamma_acf.cell[p]),
                                          fn.coeffs).val.cell[<<1>>]

\* solve_acf_polyn has returned for a 2-D texture ACF whose first cell is
\* not 0 and whose cells differ, with a real and a complex root in it
C11_Witness ==
    /\ fn.op = "solve"
    /\ fn.raised = "none"
    /\ fn.gamma_acf.shape = <<2, 2>>
    /\ fn.gamma_acf.cell[<<1, 1>>] # Fin(0)
    /\ \E p, q \in Indices(fn.gamma_acf.shape) :
          /\ fn.gamma_acf.cell[p] # fn.gamma_acf.cell[q]
          /\ fn.out.cell[p].im = 0
          /\ fn.out.cell[p].re # 0
          /\ fn.out.cell[q].im # 0

\* C13: for a texture ACF of 0 or of 3 and more dimensions,
\* solve_acf_polyn raises nothing and returns an array of the shape of its
\* input whose every cell is 0.
C13_OtherDimensionsGiveZeros ==
    (fn.op = "solve" /\ Len(fn.gamma_acf.shape) \notin {1, 2})
    => /\ fn.raised = "none"
       /\ fn.out.shape = fn.gamma_acf.shape
       /\ DOMAIN fn.out.cell = Indices(fn.gamma_acf.shape)
       /\ \A p \in Indices(fn.gamma_acf.shape) : fn.out.cell[p] = Complex(0, 0)

\* solve_acf_polyn has returned for a 3-D texture ACF, called with
\* coefficients whose polynomial has no root 0 in any cell
C13_Witness ==
    /\ fn.op = "solve"
    /\ Len(fn.gamma_acf.shape) = 3
    /\ fn.raised = "none"
    /\ fn.coeffs[1] # Fin(0)
    /\ \A p \in Indices(fn.gamma_acf.shape) :
          fn.gamma_acf.cell[p] # fn.coeffs[3]

\* C12: a frame request calls np.random.normal anew for its texture noise,
\* and a request that gets to the speckle calls it once more for the
\* speckle noise: neither call is the constructor's or one made before the
\* request, the two are different calls, and a returned frame has both,
\* its amplitude being formed with the speckle call of this request.
C12_FreshNoiseEachFrame ==
    calls.frames > 0
    => /\ noise.init \in noise.earlier
       /\ noise.texture > 0
       /\ noise.texture \notin noise.earlier
       /\ noise.speckle # 0
          => /\ noise.speckle \notin noise.earlier
             /\ noise.speckle # noise.texture
       /\ ret.some
          => /\ noise.speckle # 0
             /\ ret.Ckn_field_am.speckle = noise.speckle
       /\ draws = Cardinality(noise.earlier) + (IF noise.speckle # 0 THEN 2 ELSE 1)

\* a second frame has been returned by an engine
C12_Witness ==
    /\ engine.built
    /\ calls.frames = 2
    /\ ret.some
    /\ noise.speckle > noise.texture
    /\ Cardinality(noise.earlier) > 1

====
